---- MODULE Spec2Model ----
(***************************************************************************)
(* A model of package readconf (tusj/go-readconfig): the layered lookup of *)
(* a program's configuration file (Get and its helpers) over a small file  *)
(* system, the change watcher started by Config.Listen, concurrent calls   *)
(* of Config.Read and Config.Write through one handle, and splitPath.      *)
(*                                                                         *)
(* Strings are sequences of one-character strings, so that path.Join and   *)
(* path.Clean are computed as the library computes them.                   *)
(***************************************************************************)
EXTENDS Integers, Sequences, FiniteSets, TLC

\* ------------------------------------------------------------------ bounds
\* Longest file content, in bytes.
MaxLen == 2
\* Most calls of Get in one behaviour.
MaxCalls == 2

\* Most calls of Config.Write in one behaviour.
MaxWrites == 2
\* Most events from outside the program (a rename, a removal, another process
\* opening the file, an error of the notification subsystem) in one behaviour.
MaxExternal == 1

\* Goroutines of the application that call Config.Read on the one handle.
MaxReaders == 2
\* Most calls of Config.Read by the application in one behaviour.
MaxReads == 2

VARIABLES
  environ, \* the process environment: XDG_CONFIG_HOME and HOME
  disk,   \* the file system
  ret,    \* the last call of Get: its arguments, what it saw and what it returned
  calls,  \* calls of Get so far
  listenRet, \* what Listen returned: "none" (not called), "ok", "error"
  watched, \* the file at the Config's path is the one the watcher subscribed to
  events, \* watcher.Event: the notifications the loop has not taken yet
  werrs,  \* watcher.Error: the errors the loop has not taken yet
  pc,     \* where the goroutine of Listen is
  pending, \* the value the goroutine is sending
  lock,   \* c.lock: [readers, writer]
  recv,   \* what the consumer received from Data and Error, in order
  consuming, \* the consumer still receives from both channels
  wpc,    \* where the application's call of Write is
  warg,   \* the bytes that call writes
  written, \* the bytes of the calls of Write completed since Listen returned
  writes, \* calls of Write so far
  ext,    \* events from outside so far
  taken,  \* notifications of a kind the loop reads for, taken by the loop so far
  reads,  \* calls of Read by the loop so far
  spaced, \* every Write so far began with the watcher at rest and ended before its Read
  rpc,    \* where each of the application's calls of Read is
  rret,   \* what each reader's last call of Read returned, and when it ran
  wret,   \* what the last call of Write returned
  wold,   \* what was at the path when the last call of Write began
  quiet,  \* nobody else wrote the file since the last call of Write created it
  split,  \* the last call of splitPath: its argument and what it returned
  window  \* notifications that waited in watcher.Event when the loop's last delay began

\* The state of the application's own calls of Read, Write and splitPath
callVars == <<rpc, rret, wret, wold, quiet, split>>

watchVars ==
  <<listenRet, watched, events, werrs, pc, pending, lock, recv, consuming, wpc,
    warg, written, writes, ext, taken, reads, spaced, callVars, window>>

vars == <<environ, disk, ret, calls, watchVars>>

\* ----------------------------------------------------------------- strings
Slash == "/"
Dot == <<".">>
DotDot == <<".", ".">>
Empty == <<>>
EtcRoot == <<"/", "e", "t", "c">>
TmpRoot == <<"/", "t", "m", "p">>
DotConfig == <<".", "c", "o", "n", "f", "i", "g">>

\* ------------------------------------------------------ path (Go's package)
RECURSIVE JoinSep(_)
\* strings.Join(elems, "/")
JoinSep(elems) ==
  IF elems = <<>> THEN <<>>
  ELSE IF Len(elems) = 1 THEN elems[1]
  ELSE elems[1] \o <<Slash>> \o JoinSep(Tail(elems))

RECURSIVE SplitAcc(_, _, _)
\* the elements of a path between its slashes (empty ones included)
SplitAcc(s, cur, acc) ==
  IF s = <<>> THEN Append(acc, cur)
  ELSE IF Head(s) = Slash THEN SplitAcc(Tail(s), <<>>, Append(acc, cur))
  ELSE SplitAcc(Tail(s), Append(cur, Head(s)), acc)

RECURSIVE CleanElems(_, _, _)
\* path.Clean's pass over the elements: drop "" and ".", let ".." remove the
\* element before it, drop ".." at the root, keep a leading ".." otherwise.
CleanElems(elems, rooted, out) ==
  IF elems = <<>> THEN out
  ELSE LET e == Head(elems)
           rest == Tail(elems)
       IN  IF e = <<>> \/ e = Dot THEN CleanElems(rest, rooted, out)
           ELSE IF e = DotDot
             THEN IF out # <<>> /\ out[Len(out)] # DotDot
                    THEN CleanElems(rest, rooted, SubSeq(out, 1, Len(out) - 1))
                  ELSE IF rooted THEN CleanElems(rest, rooted, out)
                  ELSE CleanElems(rest, rooted, Append(out, e))
           ELSE CleanElems(rest, rooted, Append(out, e))

\* path.Clean's last step: the empty result is "."
OrDot(res) == IF res = <<>> THEN Dot ELSE res

\* path.Clean
Clean(p) ==
  IF p = <<>> THEN Dot
  ELSE OrDot((IF p[1] = Slash THEN <<Slash>> ELSE <<>>)
               \o JoinSep(CleanElems(SplitAcc(p, <<>>, <<>>), p[1] = Slash, <<>>)))

RECURSIVE Join(_)
\* path.Join: the elements from the first non-empty one on, joined and cleaned
Join(elems) ==
  IF elems = <<>> THEN <<>>
  ELSE IF elems[1] # <<>> THEN Clean(JoinSep(elems))
  ELSE Join(Tail(elems))

\* path.Dir of a cleaned path: everything before the last slash, cleaned
LastSlash(p) ==
  IF \E i \in 1..Len(p) : p[i] = Slash
    THEN CHOOSE i \in 1..Len(p) : p[i] = Slash /\ \A j \in (i + 1)..Len(p) : p[j] # Slash
    ELSE 0

Dir(p) == Clean(SubSeq(p, 1, LastSlash(p)))

\* ------------------------------------------------------------------ inputs
XdgValues == {Empty, <<"/", "x">>}

HomeValues == {Empty, <<"/", "h">>}

\* Program and file names a caller passes: a plain one and the empty string.
ProgramNames == {<<"p">>, Empty}

ConfNames == {<<"f">>, Empty}

Envs == [XDG_CONFIG_HOME : XdgValues, HOME : HomeValues]

\* The user root Get computes from the environment.
UserRoot(env) ==
  IF env.XDG_CONFIG_HOME # Empty THEN env.XDG_CONFIG_HOME
  ELSE Join(<<env.HOME, DotConfig>>)

\* Every root a Config of the model can have, and the paths under them. The
\* joins are computed once for all of them.
PathRoots == {EtcRoot, TmpRoot} \cup {UserRoot(e) : e \in Envs}

JoinTable ==
  [r \in PathRoots |-> [p \in ProgramNames |-> [f \in ConfNames |->
     Join(<<r, p, f>>)]]]

ProgramDirTable ==
  [r \in PathRoots |-> [p \in ProgramNames |-> Join(<<r, p>>)]]

Paths ==
  {JoinTable[r][p][f] : r \in PathRoots, p \in ProgramNames, f \in ConfNames}
    \cup {ProgramDirTable[r][p] : r \in PathRoots, p \in ProgramNames}

DirTable == [q \in Paths |-> Dir(q)]

\* ------------------------------------------------------------------ Config
\* The fields of a Config (the lock is modelled with the watcher).
MkConfig(programPath, programName, confName, isTemporary) ==
  [programPath |-> programPath, programName |-> programName,
   confName |-> confName, isTemporary |-> isTemporary]

Nil == [nil |-> TRUE]

\* Config.getPath
getPath(c) == JoinTable[c.programPath][c.programName][c.confName]

\* -------------------------------------------------------------- file system
\* A file system is [files: path -> content, dirs: set of paths]. A path is
\* looked up as the cleaned string the program passes to the os package.
\* The sample content of n bytes: 1, 2, 1, 2, ...
Sample(n) == [i \in 1..n |-> IF i % 2 = 1 THEN 1 ELSE 2]

Contents == {Sample(n) : n \in 0..MaxLen}

Min(a, b) == IF a < b THEN a ELSE b

IsFile(fs, p) == p \in DOMAIN fs.files

IsDir(fs, p) == p \in fs.dirs

\* os.Stat succeeds on whatever exists at the path, file or directory.
Stat(fs, p) == IsFile(fs, p) \/ IsDir(fs, p)

RECURSIVE Ancestors(_)
\* the directories above a cleaned path, up to "/" or "."
Ancestors(p) ==
  IF p = <<Slash>> \/ p = Dot THEN {}
  ELSE {Dir(p)} \cup Ancestors(Dir(p))

AncestorsTable == [q \in Paths |-> Ancestors(q)]

\* What can go wrong in a copy for reasons outside the model (permissions, a
\* full disk, a read error): the step that fails, and for the byte stream the
\* number of bytes that reached the destination first.
Faults ==
  {[at |-> a, n |-> 0] : a \in {"none", "mkdir", "open", "create"}}
    \cup {[at |-> "copy", n |-> k] : k \in 0..(MaxLen - 1)}

NoFault == [at |-> "none", n |-> 0]

\* os.MkdirAll(p, 0700): every missing directory of p is created; it fails when
\* a file is in the way.
MkdirAll(fs, p, fault) ==
  IF fault.at = "mkdir" \/ \E q \in {p} \cup AncestorsTable[p] : IsFile(fs, q)
    THEN [err |-> TRUE, fs |-> fs]
    ELSE [err |-> FALSE, fs |-> [fs EXCEPT !.dirs = @ \cup {p} \cup AncestorsTable[p]]]

\* os.Open(p)
Open(fs, p, fault) == [err |-> fault.at = "open" \/ ~Stat(fs, p)]

Put(files, p, content) ==
  [q \in DOMAIN files \cup {p} |-> IF q = p THEN content ELSE files[q]]

\* os.Create without O_TRUNC: an existing file keeps its bytes (a mutant of
\* Create)
CreateKeeping(fs, p, fault) ==
  IF fault.at = "create" \/ IsDir(fs, p) \/ ~IsDir(fs, DirTable[p])
    THEN [err |-> TRUE, fs |-> fs]
    ELSE [err |-> FALSE,
          fs |-> [fs EXCEPT !.files =
                    Put(@, p, IF IsFile(fs, p) THEN fs.files[p] ELSE <<>>)]]

\* os.Create(p): the file is created, or truncated when it exists
Create(fs, p, fault) ==
  IF fault.at = "create" \/ IsDir(fs, p) \/ ~IsDir(fs, DirTable[p])
    THEN [err |-> TRUE, fs |-> fs]
    ELSE [err |-> FALSE, fs |-> [fs EXCEPT !.files = Put(@, p, <<>>)]]

\* io.Copy(toFile, fromFile): the bytes of the source as they are now; reading a
\* directory fails; a failure leaves the bytes written so far.
Copy(fs, to, from, fault) ==
  IF IsDir(fs, from) THEN [err |-> TRUE, fs |-> fs]
  ELSE LET src == fs.files[from]
       IN  IF fault.at = "copy"
             THEN [err |-> TRUE,
                   fs |-> [fs EXCEPT !.files =
                             Put(@, to, SubSeq(src, 1, Min(fault.n, Len(src))))]]
             ELSE [err |-> FALSE, fs |-> [fs EXCEPT !.files = Put(@, to, src)]]

\* Exists seeing only what is under /etc (a mutant of Exists)
ExistsUnderEtc(fs, c) == c.programPath = EtcRoot /\ Stat(fs, getPath(c))

\* Config.Exists
Exists(fs, c) == Stat(fs, getPath(c))

\* Config.read after os.Create, with the error of io.Copy dropped (a mutant of
\* readCreated)
readCreatedIgnoringCopyError(t, c, from, fault) ==
  IF t.err THEN t
  ELSE [err |-> FALSE, fs |-> Copy(t.fs, getPath(c), getPath(from), fault).fs]

\* Config.read from the result t of os.Create on
readCreated(t, c, from, fault) ==
  IF t.err THEN t
  ELSE Copy(t.fs, getPath(c), getPath(from), fault)

\* Config.read from the result m of os.MkdirAll on
readMade(m, c, from, fault) ==
  IF m.err THEN m
  ELSE IF Open(m.fs, getPath(from), fault).err THEN [err |-> TRUE, fs |-> m.fs]
  ELSE readCreated(Create(m.fs, getPath(c), fault), c, from, fault)

\* Config.read: copy the file of `from` to the file of c
read(fs, c, from, fault) ==
  readMade(MkdirAll(fs, ProgramDirTable[c.programPath][c.programName], fault),
           c, from, fault)

\* copyConf's return: the new Config together with read's error
copyConfReturn(newConf, r) == [conf |-> newConf, err |-> r.err, fs |-> r.fs]

\* Config.copyConf
copyConf(fs, c, programPath, programName, confName, fault) ==
  LET isTmp == programPath = TmpRoot
      newConf == MkConfig(programPath, programName, confName, isTmp)
  IN  copyConfReturn(newConf, read(fs, newConf, c, fault))

\* Config.makeTmp
makeTmp(fs, c, fault) == copyConf(fs, c, TmpRoot, c.programName, c.confName, fault)

\* findConfig without its Exists test (a mutant of findConfig)
findConfigUnchecked(fs, configPath, programName, confName) ==
  [conf |-> MkConfig(configPath, programName, confName, TRUE), err |-> FALSE]

\* findConfig: a Config for the path when something exists there
findConfig(fs, configPath, programName, confName) ==
  LET conf == MkConfig(configPath, programName, confName, TRUE)
  IN  IF Exists(fs, conf)
        THEN [conf |-> conf, err |-> FALSE]
        ELSE [conf |-> Nil, err |-> TRUE]

\* getSysConfig
getSysConfig(fs, programName, confName) ==
  findConfig(fs, EtcRoot, programName, confName)

\* copySysConfig
copySysConfig(fs, programPath, programName, confName, fault) ==
  LET sys == getSysConfig(fs, programName, confName)
  IN  IF sys.err THEN [conf |-> Nil, err |-> TRUE, fs |-> fs]
      ELSE copyConf(fs, sys.conf, programPath, programName, confName, fault)

\* Get's test that a user root was found
UserRootSet(programPath) == programPath # DotConfig

\* Get's return after makeTmp, giving up when the copy to /tmp fails (a mutant
\* of GetTmp)
GetTmpOrFail(sys, tmp) ==
  IF tmp.err
    THEN [conf |-> Nil, err |-> TRUE, fs |-> tmp.fs, via |-> "none"]
    ELSE [conf |-> tmp.conf, err |-> FALSE, fs |-> tmp.fs, via |-> "tmp"]

\* Get's return after makeTmp: the copy in /tmp, or the system configuration
\* when the copy failed
GetTmp(sys, tmp) ==
  IF tmp.err
    THEN [conf |-> sys.conf, err |-> FALSE, fs |-> tmp.fs, via |-> "sys"]
    ELSE [conf |-> tmp.conf, err |-> FALSE, fs |-> tmp.fs, via |-> "tmp"]

\* The tail of Get: the system configuration, copied to /tmp when possible
GetSystem(fs, programName, confName, tmpFault) ==
  LET sys == getSysConfig(fs, programName, confName)
  IN  IF sys.err THEN [conf |-> Nil, err |-> TRUE, fs |-> fs, via |-> "none"]
      ELSE GetTmp(sys, makeTmp(fs, sys.conf, tmpFault))

\* Get after copySysConfig to the user root: its result, or the tail of Get
GetCopied(user, programName, confName, tmpFault) ==
  IF ~user.err
    THEN [conf |-> user.conf, err |-> FALSE, fs |-> user.fs, via |-> "copied"]
    ELSE GetSystem(user.fs, programName, confName, tmpFault)

\* Get: [conf, err, fs after the call, via: the branch that returned]
Get(fs, env, programName, confName, userFault, tmpFault) ==
  LET programPath == UserRoot(env)
  IN  IF UserRootSet(programPath)
        THEN LET found == findConfig(fs, programPath, programName, confName)
             IN  IF found.err
                   THEN GetCopied(copySysConfig(fs, programPath, programName,
                                                confName, userFault),
                                  programName, confName, tmpFault)
                   ELSE [conf |-> found.conf, err |-> FALSE, fs |-> fs, via |-> "found"]
        ELSE GetSystem(fs, programName, confName, tmpFault)

\* --------------------------------------------------------- the lookup, Get
NoCall == [called |-> FALSE]

\* mkdir -p and a write from outside: a configuration somebody put in place
Installed(fs, root, programName, confName, content) ==
  LET c == MkConfig(root, programName, confName, FALSE)
      m == MkdirAll(fs, ProgramDirTable[root][programName], NoFault)
  IN  [m.fs EXCEPT !.files = Put(@, getPath(c), content)]

BaseDirs == {<<Slash>>, Dot, EtcRoot, TmpRoot}

\* A file that may be missing: no content, or one.
MaybeFile == {{}} \cup {{c} : c \in Contents}

\* The file systems Get is called in: /etc and /tmp exist; the program's
\* configuration p/f may be installed under /etc, and under the user root too.
InitialDisks(e) ==
  LET base == [files |-> <<>>, dirs |-> BaseDirs]
      withSys(fs, c) ==
        IF c = {} THEN fs
        ELSE Installed(fs, EtcRoot, <<"p">>, <<"f">>, CHOOSE x \in c : TRUE)
      withUser(fs, c) ==
        IF c = {} THEN fs
        ELSE Installed(fs, UserRoot(e), <<"p">>, <<"f">>, CHOOSE x \in c : TRUE)
  IN  {withUser(withSys(base, s), u) :
         s \in MaybeFile,
         u \in IF UserRootSet(UserRoot(e)) THEN MaybeFile ELSE {{}}}

\* No call of Read, Write or splitPath by the application yet.
NoRead == [done |-> FALSE]

NoWrite == [called |-> FALSE]

NoSplit == [called |-> FALSE]

Readers == 1..MaxReaders

CallsIdle ==
  /\ rpc = [r \in Readers |-> "idle"]
  /\ rret = [r \in Readers |-> NoRead]
  /\ wret = NoWrite
  /\ wold = {}
  /\ quiet = TRUE
  /\ split = NoSplit

\* No Listen, no Write: the watcher's part of the state before anything ran.
WatchIdle ==
  /\ CallsIdle
  /\ window = 0
  /\ listenRet = "none"
  /\ watched = FALSE
  /\ events = <<>>
  /\ werrs = 0
  /\ pc = "off"
  /\ pending = <<>>
  /\ lock = [readers |-> 0, writer |-> FALSE]
  /\ recv = <<>>
  /\ consuming = TRUE
  /\ wpc = "idle"
  /\ warg = <<>>
  /\ written = <<>>
  /\ writes = 0
  /\ ext = 0
  /\ taken = 0
  /\ reads = 0
  /\ spaced = TRUE

GetInit ==
  /\ environ \in Envs
  /\ disk \in InitialDisks(environ)
  /\ ret = NoCall
  /\ calls = 0
  /\ WatchIdle

\* A call of Get by the application, start to return.
CallGet(programName, confName, userFault, tmpFault) ==
  /\ calls < MaxCalls
  /\ LET r == Get(disk, environ, programName, confName, userFault, tmpFault)
     IN  /\ ret' = [called |-> TRUE, programName |-> programName,
                    confName |-> confName, before |-> disk,
                    conf |-> r.conf, err |-> r.err, via |-> r.via]
         /\ disk' = r.fs
  /\ calls' = calls + 1
  /\ UNCHANGED <<environ, watchVars>>

GetNext ==
  \E p \in ProgramNames, f \in ConfNames, uf \in Faults, tf \in Faults :
    CallGet(p, f, uf, tf)

GetSpec == GetInit /\ [][GetNext]_vars

\* ------------------------------------------------- claims about the lookup
\* The paths of the last call: <root>/<program>/<file> under /etc and the user root
SysPath == JoinTable[EtcRoot][ret.programName][ret.confName]

UserPath == JoinTable[UserRoot(environ)][ret.programName][ret.confName]

NoUserEnv == environ.XDG_CONFIG_HOME = Empty /\ environ.HOME = Empty

\* C1: when something exists at /etc/<program>/<file>, Get returns a Config and
\* no error, whatever the environment holds and whichever of the user lookup,
\* the copy to the user root and the copy to /tmp fails.
C1_SystemConfigAlwaysServes ==
  (ret.called /\ Stat(ret.before, SysPath)) => (~ret.err /\ ret.conf # Nil)

\* C1's case: a user root is set, nothing is found there, the copy to it fails,
\* the copy to /tmp fails too, and Get still returns the Config under /etc.
C1_Witness ==
  /\ ret.called
  /\ UserRootSet(UserRoot(environ))
  /\ IsFile(ret.before, SysPath)
  /\ ~Stat(ret.before, UserPath)
  /\ ret.via = "sys"
  /\ ~ret.err

\* C2: with a user root and a file already at <userRoot>/<program>/<file>, Get
\* returns a Config whose path is that path and whose isTemporary is false.
C2_UserConfigNotTemporary ==
  (ret.called /\ UserRootSet(UserRoot(environ)) /\ IsFile(ret.before, UserPath))
    => /\ ~ret.err
       /\ ret.conf # Nil
       /\ getPath(ret.conf) = UserPath
       /\ ret.conf.isTemporary = FALSE

\* C3: with no user root and a system configuration, Get succeeds; the Config
\* is temporary exactly when the copy to /tmp succeeded, and when that copy
\* failed it is the Config under /etc with isTemporary false.
C3_TemporaryIffTmpCopy ==
  (ret.called /\ NoUserEnv /\ IsFile(ret.before, SysPath))
    => /\ ~ret.err
       /\ ret.conf # Nil
       /\ ret.conf.isTemporary <=> (ret.via = "tmp")
       /\ (ret.via # "tmp") =>
            (ret.conf.programPath = EtcRoot /\ ret.conf.isTemporary = FALSE)

\* C4: with both variables empty and nothing at /etc/<program>/<file>, Get
\* returns an error and no Config.
C4_NoSystemConfigFails ==
  (ret.called /\ NoUserEnv /\ ~Stat(ret.before, SysPath))
    => (ret.err /\ ret.conf = Nil)

\* C4's case: such a call was made (and the file system is as it was).
C4_Witness ==
  /\ ret.called
  /\ NoUserEnv
  /\ ~Stat(ret.before, SysPath)
  /\ ret.err
  /\ disk = ret.before

\* C5: with a user root, nothing at <userRoot>/<program>/<file> and a system
\* configuration, a successful copy makes Get return a Config rooted at the
\* user root, and the file there then holds the bytes of the system's file.
C5_UserCopyEqualsSystem ==
  (/\ ret.called
   /\ UserRootSet(UserRoot(environ))
   /\ ~Stat(ret.before, UserPath)
   /\ Stat(ret.before, SysPath)
   /\ ret.via = "copied")
    => /\ ~ret.err
       /\ ret.conf = MkConfig(UserRoot(environ), ret.programName, ret.confName, FALSE)
       /\ IsFile(ret.before, SysPath)
       /\ IsFile(disk, UserPath)
       /\ disk.files[UserPath] = ret.before.files[SysPath]
       /\ disk.files[SysPath] = ret.before.files[SysPath]

\* C5's case: the copy was made, of a file of the longest content.
C5_Witness ==
  /\ ret.called
  /\ ret.via = "copied"
  /\ ~Stat(ret.before, UserPath)
  /\ IsFile(disk, UserPath)
  /\ Len(disk.files[UserPath]) = MaxLen

\* ------------------------------------------------------ the watcher, Listen
\* The Config that is watched: the copy under /tmp that Get returns.
WatchedConf == MkConfig(TmpRoot, <<"p">>, <<"f">>, TRUE)

WatchedPath == getPath(WatchedConf)

\* inotify's event kinds: the three the loop reads for, and two of the others
\* (the watcher subscribes to all of them)
IN_MODIFY == "IN_MODIFY"
IN_MOVE_SELF == "IN_MOVE_SELF"
IN_DELETE_SELF == "IN_DELETE_SELF"
IN_OPEN == "IN_OPEN"
IN_IGNORED == "IN_IGNORED"

\* The kinds that tell of a change of the file: modify, move-self, delete-self
ChangeKinds == {IN_MODIFY, IN_MOVE_SELF, IN_DELETE_SELF}

\* The switch of an earlier revision: IN_MODIFY alone (a mutant of Qualifies)
QualifiesModifyOnly(mask) == mask = IN_MODIFY

\* The switch without its default case (a mutant of Qualifies)
QualifiesAll(mask) == TRUE

\* The switch on ev.Mask: the cases that leave the switch and go on to the Read
Qualifies(mask) ==
  CASE mask = IN_MODIFY -> TRUE
    [] mask = IN_MOVE_SELF -> TRUE
    [] mask = IN_DELETE_SELF -> TRUE
    [] OTHER -> FALSE

\* ioutil.ReadFile
ReadFile(fs, p) ==
  IF IsFile(fs, p) THEN [err |-> FALSE, data |-> fs.files[p]]
  ELSE [err |-> TRUE, data |-> <<>>]

\* Channels with room for a value (a mutant of SendReady)
SendReadyBuffered(receiving) == TRUE

\* data and errs are made without a buffer: a send completes when a receiver
\* takes the value
SendReady(receiving) == receiving

\* The goroutine returning after a send (a mutant of AfterSend)
AfterSendReturn == "done"

\* Where the goroutine goes when its send completed: round the for loop again
AfterSend == "select"

DataMsg(b) == [ch |-> "data", v |-> b]

ErrMsg(e) == [ch |-> "err", v |-> e]

\* The watcher is at rest: the loop waits in select and nothing waits for it.
Quiescent == pc = "select" /\ events = <<>> /\ werrs = 0

\* A change of the watched file reaches the watcher when the file is watched.
Notify(q, active, mask) == IF active THEN Append(q, mask) ELSE q

WatchInit ==
  /\ environ = [XDG_CONFIG_HOME |-> Empty, HOME |-> Empty]
  /\ \E c \in Contents :
       disk = Installed([files |-> <<>>, dirs |-> BaseDirs], TmpRoot, <<"p">>, <<"f">>, c)
  /\ ret = NoCall
  /\ calls = 0
  /\ WatchIdle

frame == <<environ, ret, calls, callVars, window>>

\* Listen, when the watcher is made and the file can be watched: the goroutine
\* starts and the channels are returned.
ListenOk ==
  /\ listenRet = "none"
  /\ Stat(disk, WatchedPath)
  /\ listenRet' = "ok"
  /\ watched' = TRUE
  /\ pc' = "select"
  /\ written' = <<>>
  /\ spaced' = (wpc = "idle")
  /\ UNCHANGED <<frame, disk, events, werrs, pending, lock, recv, consuming, wpc,
                 warg, writes, ext, taken, reads>>

\* Listen returning its error after the go statement (a mutant of ListenFail)
ListenFailAfterGo(newWatcherFails) ==
  /\ listenRet = "none"
  /\ newWatcherFails \/ ~Stat(disk, WatchedPath)
  /\ listenRet' = "error"
  /\ pc' = "select"
  /\ UNCHANGED <<frame, disk, watched, events, werrs, pending, lock, recv,
                 consuming, wpc, warg, written, writes, ext, taken, reads, spaced>>

\* Listen, when inotify.NewWatcher fails or the file cannot be watched: an
\* error is returned and no goroutine starts.
ListenFail(newWatcherFails) ==
  /\ listenRet = "none"
  /\ newWatcherFails \/ ~Stat(disk, WatchedPath)
  /\ listenRet' = "error"
  /\ UNCHANGED <<frame, disk, watched, events, werrs, pc, pending, lock, recv,
                 consuming, wpc, warg, written, writes, ext, taken, reads, spaced>>

\* The loop takes a notification: one of the three kinds goes on to the delay
\* and the Read, any other is dropped.
LoopTake ==
  /\ pc = "select"
  /\ events # <<>>
  /\ events' = Tail(events)
  /\ pc' = IF Qualifies(Head(events)) THEN "sleep" ELSE "select"
  /\ taken' = IF Head(events) \in ChangeKinds THEN taken + 1 ELSE taken
  /\ window' = IF Qualifies(Head(events)) THEN Len(Tail(events)) ELSE window
  /\ UNCHANGED <<environ, ret, calls, callVars, disk, listenRet, watched, werrs, pending, lock, recv,
                 consuming, wpc, warg, written, writes, ext, reads, spaced>>

\* The loop takes an error of the watcher and sends it on errs.
LoopTakeError ==
  /\ pc = "select"
  /\ werrs > 0
  /\ werrs' = werrs - 1
  /\ pending' = ErrMsg("watcher")
  /\ pc' = "send"
  /\ UNCHANGED <<frame, disk, listenRet, watched, events, lock, recv, consuming,
                 wpc, warg, written, writes, ext, taken, reads, spaced>>

\* time.After(5e7) fires.
LoopWake ==
  /\ pc = "sleep"
  /\ pc' = "read"
  /\ UNCHANGED <<frame, disk, listenRet, watched, events, werrs, pending, lock,
                 recv, consuming, wpc, warg, written, writes, ext, taken, reads,
                 spaced>>

\* Read by the loop: c.lock.RLock()
LoopRLock ==
  /\ pc = "read"
  /\ ~lock.writer
  /\ lock' = [lock EXCEPT !.readers = @ + 1]
  /\ pc' = "reading"
  /\ UNCHANGED <<frame, disk, listenRet, watched, events, werrs, pending, recv,
                 consuming, wpc, warg, written, writes, ext, taken, reads, spaced>>

\* Read by the loop: ioutil.ReadFile and the deferred RUnlock; the result goes
\* to data, the error to errs.
LoopReadFile ==
  /\ pc = "reading"
  /\ LET r == ReadFile(disk, WatchedPath)
     IN  pending' = IF r.err THEN ErrMsg("read") ELSE DataMsg(r.data)
  /\ lock' = [lock EXCEPT !.readers = @ - 1]
  /\ reads' = reads + 1
  /\ spaced' = (spaced /\ wpc = "idle")
  /\ pc' = "send"
  /\ UNCHANGED <<frame, disk, listenRet, watched, events, werrs, recv, consuming,
                 wpc, warg, written, writes, ext, taken>>

\* The send completes: the consumer receives the value and the loop goes on.
Deliver ==
  /\ pc = "send"
  /\ SendReady(consuming)
  /\ recv' = IF consuming THEN Append(recv, pending) ELSE recv
  /\ pc' = AfterSend
  /\ UNCHANGED <<frame, disk, listenRet, watched, events, werrs, pending, lock,
                 consuming, wpc, warg, written, writes, ext, taken, reads, spaced>>

\* The consumer stops receiving, for good.
ConsumerStops ==
  /\ listenRet = "ok"
  /\ consuming
  /\ consuming' = FALSE
  /\ UNCHANGED <<frame, disk, listenRet, watched, events, werrs, pc, pending,
                 lock, recv, wpc, warg, written, writes, ext, taken, reads, spaced>>

\* Write: os.Create truncates the file (or creates it, a new file nobody
\* watches); on an error Write returns at once.
WriteCreate(b) ==
  /\ wpc = "idle"
  /\ writes < MaxWrites
  /\ writes' = writes + 1
  /\ LET t == Create(disk, WatchedPath, NoFault)
         old == IsFile(disk, WatchedPath)
     IN  /\ disk' = t.fs
         /\ wpc' = IF t.err THEN "idle" ELSE "created"
         /\ events' = Notify(events, ~t.err /\ old /\ watched, IN_MODIFY)
         /\ watched' = (watched /\ old)
  /\ warg' = b
  /\ spaced' = (spaced /\ (listenRet = "ok" => Quiescent))
  /\ UNCHANGED <<frame, listenRet, werrs, pc, pending, lock, recv, consuming,
                 written, ext, taken, reads>>

\* Write: c.lock.Lock()
WriteLock ==
  /\ wpc = "created"
  /\ ~lock.writer
  /\ lock.readers = 0
  /\ lock' = [lock EXCEPT !.writer = TRUE]
  /\ wpc' = "locked"
  /\ UNCHANGED <<frame, disk, listenRet, watched, events, werrs, pc, pending,
                 recv, consuming, warg, written, writes, ext, taken, reads, spaced>>

\* Write: file.Write(newConf), the deferred Unlock and the return
WriteData ==
  /\ wpc = "locked"
  /\ disk' = [disk EXCEPT !.files = Put(@, WatchedPath, warg)]
  /\ events' = Notify(events, watched, IN_MODIFY)
  /\ lock' = [lock EXCEPT !.writer = FALSE]
  /\ wpc' = "idle"
  /\ written' = IF listenRet = "ok" THEN Append(written, warg) ELSE written
  /\ UNCHANGED <<frame, listenRet, watched, werrs, pc, pending, recv, consuming,
                 warg, writes, ext, taken, reads, spaced>>

Remove(fs, p) ==
  [fs EXCEPT !.files = [q \in DOMAIN fs.files \ {p} |-> fs.files[q]]]

\* Somebody renames the file away: the watch follows it, the path is empty.
ExtMove ==
  /\ ext < MaxExternal
  /\ wpc = "idle"
  /\ IsFile(disk, WatchedPath)
  /\ disk' = Remove(disk, WatchedPath)
  /\ events' = Notify(events, watched, IN_MOVE_SELF)
  /\ watched' = FALSE
  /\ ext' = ext + 1
  /\ UNCHANGED <<frame, listenRet, werrs, pc, pending, lock, recv, consuming, wpc,
                 warg, written, writes, taken, reads, spaced>>

\* Somebody removes the file: the watch ends with IN_DELETE_SELF and IN_IGNORED.
ExtDelete ==
  /\ ext < MaxExternal
  /\ wpc = "idle"
  /\ IsFile(disk, WatchedPath)
  /\ disk' = Remove(disk, WatchedPath)
  /\ events' = Notify(Notify(events, watched, IN_DELETE_SELF), watched, IN_IGNORED)
  /\ watched' = FALSE
  /\ ext' = ext + 1
  /\ UNCHANGED <<frame, listenRet, werrs, pc, pending, lock, recv, consuming, wpc,
                 warg, written, writes, taken, reads, spaced>>

\* Another process opens the watched file.
ExtOpen ==
  /\ ext < MaxExternal
  /\ watched
  /\ events' = Append(events, IN_OPEN)
  /\ ext' = ext + 1
  /\ UNCHANGED <<frame, disk, listenRet, watched, werrs, pc, pending, lock, recv,
                 consuming, wpc, warg, written, writes, taken, reads, spaced>>

\* The notification subsystem reports an error on watcher.Error.
WatcherError ==
  /\ ext < MaxExternal
  /\ listenRet = "ok"
  /\ werrs' = werrs + 1
  /\ ext' = ext + 1
  /\ UNCHANGED <<frame, disk, listenRet, watched, events, pc, pending, lock, recv,
                 consuming, wpc, warg, written, writes, taken, reads, spaced>>

\* The bytes the application writes: two different contents.
WriteValues == {Sample(MaxLen), Sample(MaxLen - 1)}

WatchNext ==
  \/ ListenOk
  \/ \E f \in BOOLEAN : ListenFail(f)
  \/ LoopTake
  \/ LoopTakeError
  \/ LoopWake
  \/ LoopRLock
  \/ LoopReadFile
  \/ Deliver
  \/ ConsumerStops
  \/ \E b \in WriteValues : WriteCreate(b)
  \/ WriteLock
  \/ WriteData
  \/ ExtMove
  \/ ExtDelete
  \/ ExtOpen
  \/ WatcherError

WatchSpec == WatchInit /\ [][WatchNext]_vars

\* The goroutine and a call of Write keep running when they can, and a send to
\* a consumer that receives completes.
WatchFairness ==
  /\ WF_vars(LoopTake)
  /\ WF_vars(LoopTakeError)
  /\ WF_vars(LoopWake)
  /\ WF_vars(LoopRLock)
  /\ WF_vars(LoopReadFile)
  /\ WF_vars(Deliver)
  /\ WF_vars(WriteLock)
  /\ WF_vars(WriteData)

WatchFairSpec == WatchSpec /\ WatchFairness

\* ------------------------------------------------ claims about the watcher
IsData(m) == m.ch = "data"

\* The bytes received on Data, in order
DataReceived ==
  LET d == SelectSeq(recv, IsData) IN [i \in 1..Len(d) |-> d[i].v]

IsFromRead(m) == m.ch = "data" \/ m = ErrMsg("read")

\* The results of the loop's Reads that the consumer received
ReadsReceived == Len(SelectSeq(recv, IsFromRead))

IsChange(mask) == mask \in ChangeKinds

\* The notifications of a change that wait in watcher.Event
ChangesWaiting == Len(SelectSeq(events, IsChange))

Distinct(q) == \A i, j \in DOMAIN q : i # j => q[i] # q[j]

\* C6: after Listen, K different contents written one after the other, each
\* Write begun with the watcher at rest and over before the loop's Read, with
\* the consumer receiving and nothing else touching the file, come out as
\* exactly K values on Data, the i-th the i-th written.
C6_OneDeliveryPerWrite ==
  (/\ listenRet = "ok"
   /\ spaced
   /\ ext = 0
   /\ consuming
   /\ wpc = "idle"
   /\ Quiescent
   /\ Distinct(written))
    => DataReceived = written

\* C7: every notification of a change taken by the loop is answered by one
\* value on one channel (the bytes of a Read that succeeded, the error of one
\* that failed), and nothing is published before Listen subscribed nor without
\* such a notification.
C7_OnePublicationPerChange ==
  LET readInFlight ==
        pc \in {"sleep", "read", "reading"} \/ (pc = "send" /\ IsFromRead(pending))
  IN  /\ taken = ReadsReceived + (IF readInFlight THEN 1 ELSE 0)
      /\ reads = ReadsReceived + (IF pc = "send" /\ IsFromRead(pending) THEN 1 ELSE 0)
      /\ Len(DataReceived) <= taken
      /\ listenRet # "ok" => (recv = <<>> /\ events = <<>> /\ taken = 0 /\ pc = "off")

\* C7's case: a Write finished before Listen, one was made after it, and the
\* consumer received the second one's bytes and never the first one's.
C7_Witness ==
  /\ listenRet = "ok"
  /\ writes = 2
  /\ Len(written) = 1
  /\ spaced
  /\ recv = <<DataMsg(written[1])>>
  /\ taken = 1

\* C8: a notification of any other kind is dropped when the loop takes it: no
\* delay, no Read, nothing sent on either channel.
C8_OtherKindsSkipped ==
  [][(pc = "select" /\ events # <<>> /\ events' = Tail(events)
        /\ Head(events) \notin ChangeKinds)
      => (/\ pc' = "select"
          /\ reads' = reads
          /\ recv' = recv
          /\ pending' = pending
          /\ lock' = lock)]_vars

\* C8's case: another process opened the watched file, the loop took the
\* notification, and it read and sent nothing.
C8_Witness ==
  /\ listenRet = "ok"
  /\ watched
  /\ ext = 1
  /\ events = <<>>
  /\ werrs = 0
  /\ pc = "select"
  /\ writes = 0
  /\ reads = 0
  /\ recv = <<>>

ErrorReceived == \E i \in DOMAIN recv : recv[i].ch = "err"

\* The most notifications of a change one behaviour can hold
MostChanges == 2 * MaxWrites + MaxExternal

\* C9: an error, of a Read or of the watcher, is sent on Error and the loop goes
\* round again when the consumer received it; and with an error received, every
\* notification of a change that reached the watcher still gets its Read
\* published, as long as the consumer receives.
C9_ErrorsDoNotEndLoop ==
  /\ [][(pc = "send" /\ pending.ch = "err" /\ pc' # pc)
         => (pc' = "select" /\ recv' = Append(recv, pending)
             /\ listenRet' = "ok" /\ events' = events)]_vars
  /\ \A k \in 1..MostChanges :
       (ErrorReceived /\ taken + ChangesWaiting >= k)
         ~> (ReadsReceived >= k \/ ~consuming)

\* C9's case: the consumer received an error and, after it, the bytes of a
\* later Read.
C9_Witness ==
  \E i, j \in DOMAIN recv :
    /\ i < j
    /\ recv[i].ch = "err"
    /\ recv[j].ch = "data"

\* C10: while the loop sends it takes no notification and no error and reads
\* nothing; it leaves the send only by the consumer receiving that value, and
\* with the consumer gone it stays in the send with the value.
C10_UnbufferedHandoff ==
  [][pc = "send"
      => /\ reads' = reads
         /\ taken' = taken
         /\ Len(events') >= Len(events)
         /\ werrs' >= werrs
         /\ pending' = pending
         /\ \/ pc' = "send" /\ recv' = recv
            \/ consuming /\ pc' = "select" /\ recv' = Append(recv, pending)]_vars

\* C10's case: the consumer is gone, the loop holds the bytes it read, and a
\* further notification waits.
C10_Witness ==
  /\ pc = "send"
  /\ ~consuming
  /\ IsData(pending)
  /\ ChangesWaiting > 0

\* ------------------------------------- Read and Write through one handle
\* The application calls Write from one goroutine and Read from others, all
\* through the handle WatchedConf; another process may write the file too.
\* sync.RWMutex: RLock waits while a writer holds the lock or waits for it
RLockAlways(l, writer) == TRUE

CanRLock(l, writer) == ~l.writer /\ writer # "locking"

\* sync.RWMutex: Lock waits for the writer and the readers that hold the lock
CanLock(l) == ~l.writer /\ l.readers = 0

\* Unlock left out on the error return (a mutant of Unlock)
UnlockUnlessError(l, err) == IF err THEN l ELSE [l EXCEPT !.writer = FALSE]

\* defer c.lock.Unlock(): runs when Write returns, whatever file.Write returned
Unlock(l, err) == [l EXCEPT !.writer = FALSE]

\* defer c.lock.RUnlock(): runs when Read returns, whatever ReadFile returned
RUnlock(l, err) == [l EXCEPT !.readers = @ - 1]

\* A file.Write that writes nothing (a mutant of Overwrite)
OverwriteNothing(cur, data) == cur

\* file.Write on the file os.Create returned: the bytes go to the start of the
\* file, over what is there
Overwrite(cur, data) == data \o SubSeq(cur, Len(data) + 1, Len(cur))

\* What is at a path: no file, or its bytes
ContentAt(fs, p) == IF IsFile(fs, p) THEN {fs.files[p]} ELSE {}

\* The file systems the handle is used in: the file is there, or only its
\* directory, or not even that.
AccessDisks ==
  LET base == [files |-> <<>>, dirs |-> BaseDirs]
  IN  {base, MkdirAll(base, ProgramDirTable[TmpRoot][<<"p">>], NoFault).fs}
        \cup {Installed(base, TmpRoot, <<"p">>, <<"f">>, c) : c \in Contents}

AccessInit ==
  /\ environ = [XDG_CONFIG_HOME |-> Empty, HOME |-> Empty]
  /\ disk \in AccessDisks
  /\ ret = NoCall
  /\ calls = 0
  /\ WatchIdle

\* What the calls of Read and Write leave alone
accessFrame ==
  <<environ, ret, calls, listenRet, watched, events, werrs, pc, pending, recv,
    consuming, written, taken, spaced, split, window>>

\* Write: os.Create(c.getPath()); on an error Write returns 0 and the error
\* without touching the lock.
Write_Create(b, fails) ==
  /\ wpc = "idle"
  /\ writes < MaxWrites
  /\ writes' = writes + 1
  /\ warg' = b
  /\ wold' = ContentAt(disk, WatchedPath)
  /\ LET t == Create(disk, WatchedPath,
                     IF fails THEN [at |-> "create", n |-> 0] ELSE NoFault)
     IN  /\ disk' = t.fs
         /\ wpc' = IF t.err THEN "idle" ELSE "created"
         /\ wret' = IF t.err
                      THEN [called |-> TRUE, n |-> 0, err |-> TRUE, faulted |-> fails]
                      ELSE NoWrite
         /\ quiet' = IF t.err THEN quiet ELSE TRUE
  /\ UNCHANGED <<accessFrame, lock, rpc, rret, reads, ext>>

\* Write: c.lock.Lock() is called
Write_Lock ==
  /\ wpc = "created"
  /\ wpc' = "locking"
  /\ UNCHANGED <<accessFrame, disk, lock, warg, wold, wret, quiet, writes, rpc,
                 rret, reads, ext>>

\* Write: c.lock.Lock() returns
Write_Locked ==
  /\ wpc = "locking"
  /\ CanLock(lock)
  /\ lock' = [lock EXCEPT !.writer = TRUE]
  /\ wpc' = "locked"
  /\ UNCHANGED <<accessFrame, disk, warg, wold, wret, quiet, writes, rpc, rret,
                 reads, ext>>

\* Write: file.Write(newConf) writes k bytes, all of them or fewer with an
\* error; the deferred Unlock runs and Write returns.
Write_File(k) ==
  /\ wpc = "locked"
  /\ k \in 0..Len(warg)
  /\ LET err == k < Len(warg)
         cur == IF IsFile(disk, WatchedPath) THEN disk.files[WatchedPath] ELSE <<>>
     IN  /\ disk' = [disk EXCEPT !.files =
                       Put(@, WatchedPath, Overwrite(cur, SubSeq(warg, 1, k)))]
         /\ lock' = Unlock(lock, err)
         /\ wret' = [called |-> TRUE, n |-> k, err |-> err, faulted |-> err]
  /\ wpc' = "idle"
  /\ UNCHANGED <<accessFrame, warg, wold, quiet, writes, rpc, rret, reads, ext>>

\* Read: c.lock.RLock()
Read_RLock(r) ==
  /\ rpc[r] = "idle"
  /\ reads < MaxReads
  /\ CanRLock(lock, wpc)
  /\ lock' = [lock EXCEPT !.readers = @ + 1]
  /\ rpc' = [rpc EXCEPT ![r] = "locked"]
  /\ rret' = [rret EXCEPT ![r] = [done |-> FALSE, began |-> wpc]]
  /\ reads' = reads + 1
  /\ UNCHANGED <<accessFrame, disk, wpc, warg, wold, wret, quiet, writes, ext>>

\* Read: ioutil.ReadFile(c.getPath()), the deferred RUnlock and the return.
\* With the result are kept: whether the
\* Read follows a Write that returned without error with no other writer since
\* (and that Write's bytes), whether it ran between a Write's os.Create and its
\* Lock.
Read_File(r, fails) ==
  /\ rpc[r] = "locked"
  /\ LET f == ReadFile(disk, WatchedPath)
         res == IF fails THEN [err |-> TRUE, data |-> <<>>] ELSE f
         fresh == wpc = "idle" /\ wret.called /\ ~wret.err /\ quiet
     IN  /\ rret' = [rret EXCEPT ![r] =
                       [done |-> TRUE, err |-> res.err, data |-> res.data,
                        faulted |-> fails,
                        fresh |-> fresh,
                        want |-> IF fresh THEN warg ELSE <<>>,
                        between |-> (rret[r].began = "created" /\ wpc = "created"
                                       /\ quiet)]]
         /\ lock' = RUnlock(lock, res.err)
  /\ rpc' = [rpc EXCEPT ![r] = "idle"]
  /\ UNCHANGED <<accessFrame, disk, wpc, warg, wold, wret, quiet, writes, reads, ext>>

\* The bytes another process writes: a content the application never writes.
ExternalValues == {<<2>>}

\* Another process rewrites the file.
ExternalWrite(c) ==
  /\ ext < MaxExternal
  /\ IsFile(disk, WatchedPath)
  /\ disk' = [disk EXCEPT !.files = Put(@, WatchedPath, c)]
  /\ quiet' = FALSE
  /\ ext' = ext + 1
  /\ UNCHANGED <<accessFrame, lock, wpc, warg, wold, wret, writes, rpc, rret, reads>>

AccessNext ==
  \/ \E b \in WriteValues, fails \in BOOLEAN : Write_Create(b, fails)
  \/ Write_Lock
  \/ Write_Locked
  \/ \E k \in 0..MaxLen : Write_File(k)
  \/ \E r \in Readers : Read_RLock(r)
  \/ \E r \in Readers, fails \in BOOLEAN : Read_File(r, fails)
  \/ \E c \in ExternalValues : ExternalWrite(c)

AccessSpec == AccessInit /\ [][AccessNext]_vars

\* ------------------------------------------- claims about Read and Write
\* C11: a Read that follows a Write(b) which returned without error, with no
\* other writer and no further Write since, returns exactly b and no error,
\* whatever the file held before; and on a handle whose parent directory
\* exists Write fails only when os.Create or file.Write does.
C11_WriteThenRead ==
  /\ \A r \in Readers :
       (rret[r].done /\ rret[r].fresh /\ ~rret[r].faulted)
         => (~rret[r].err /\ rret[r].data = rret[r].want)
  /\ (wret.called /\ wret.err)
       => (wret.faulted \/ ~IsDir(disk, DirTable[WatchedPath]))

\* C11's case: the shorter content was written over the longer one and read.
C11_Witness ==
  \E r \in Readers :
    /\ rret[r].done
    /\ rret[r].fresh
    /\ wold = {Sample(MaxLen)}
    /\ rret[r].want = Sample(MaxLen - 1)
    /\ rret[r].data = Sample(MaxLen - 1)

\* ------------------------------------------------- more about the watcher
\* C12: Listen returns an error when nothing exists at the Config's path; and
\* after Listen returned an error, for that or because no watcher could be
\* made, there is no goroutine and no subscription: nothing is taken from the
\* watcher, nothing is read and nothing reaches a consumer, whatever is written
\* afterwards.
C12_ListenFailure ==
  /\ [](listenRet = "error"
         => (/\ pc = "off"
             /\ ~watched
             /\ events = <<>>
             /\ werrs = 0
             /\ taken = 0
             /\ reads = 0
             /\ pending = <<>>
             /\ recv = <<>>))
  /\ [][/\ (listenRet = "none" /\ listenRet' # "none" /\ ~Stat(disk, WatchedPath))
             => listenRet' = "error"
        /\ listenRet = "error" => listenRet' = "error"]_vars

\* C12's case: the file was gone, Listen returned its error, and a Write made
\* afterwards stays unseen.
C12_Witness ==
  /\ listenRet = "error"
  /\ ext = 1
  /\ writes > 0
  /\ wpc = "idle"
  /\ IsFile(disk, WatchedPath)
  /\ pc = "off"

\* --------------------------------------------------- more about the lookup
\* C13: the Config that Get returns has a non-empty programPath, programName
\* and confName, whatever names the caller passed.
C13_NoEmptyComponent ==
  (ret.called /\ ret.conf # Nil)
    => (/\ ret.conf.programPath # Empty
        /\ ret.conf.programName # Empty
        /\ ret.conf.confName # Empty)

\* The notifications of a change produced while the loop was in its delay:
\* those behind the ones that already waited when the delay began.
ProducedInWindow(q) ==
  {i \in (window + 1)..Len(q) : q[i] \in ChangeKinds}

\* C14: the notifications of a change produced during the loop's delay are
\* covered by the one Read after it (when the delay ends none of them waits
\* for a Read of its own), and notifications leave watcher.Event in the order
\* they entered it.
C14_OneReadPerWindow ==
  /\ [][(pc = "sleep" /\ pc' = "read") => ProducedInWindow(events') = {}]_vars
  /\ [][Len(events') < Len(events) => events' = Tail(events)]_vars

\* ------------------------------------- more about Read and Write
\* The readers inside Read, between RLock and RUnlock
Reading == {r \in Readers : rpc[r] = "locked"}

\* C15: while Write holds the lock (from Lock's return to the end of
\* file.Write) no Read is between its RLock and its RUnlock, and the other way
\* round; the lock is never held for writing and for reading at once.
C15_NoOverlap ==
  /\ ~(wpc = "locked" /\ Reading # {})
  /\ ~(lock.writer /\ lock.readers > 0)

\* C15's case: Write waits in Lock while both readers are inside Read.
C15_Witness ==
  /\ wpc = "locking"
  /\ Reading = Readers
  /\ lock.readers = MaxReaders

\* C16: the lock is held for writing exactly while a Write is between Lock and
\* its return, and for reading by exactly the Reads between RLock and their
\* return: with every call returned, with or without an error, the lock is free.
C16_LockReleased ==
  /\ lock.writer <=> wpc = "locked"
  /\ lock.readers = Cardinality(Reading)
  /\ (wpc = "idle" /\ Reading = {}) => lock = [readers |-> 0, writer |-> FALSE]

\* C16's case: file.Write failed after a part of the bytes, a Read failed, and
\* with both calls returned the lock is free.
C16_Witness ==
  /\ wpc = "idle"
  /\ Reading = {}
  /\ wret.called /\ wret.err /\ wret.n > 0
  /\ \E r \in Readers : rret[r].done /\ rret[r].err
  /\ lock = [readers |-> 0, writer |-> FALSE]

\* C17: from os.Create to Lock's return Write holds no lock and, nobody else
\* writing, the file is there and empty; a Read that begins and reads in that
\* time returns no error and no bytes.
C17_ReadSeesTruncatedFile ==
  /\ (wpc \in {"created", "locking"} /\ quiet)
       => (/\ ~lock.writer
           /\ IsFile(disk, WatchedPath)
           /\ disk.files[WatchedPath] = <<>>)
  /\ \A r \in Readers :
       (rret[r].done /\ rret[r].between /\ ~rret[r].faulted)
         => (~rret[r].err /\ rret[r].data = <<>>)

\* C17's case: the file held the longest content, Write(b) with b not empty
\* created it anew, and the Read made before Lock returned neither.
C17_Witness ==
  \E r \in Readers :
    /\ rret[r].done
    /\ rret[r].between
    /\ wpc = "created"
    /\ wold = {Sample(MaxLen)}
    /\ warg # <<>>
    /\ ~rret[r].err
    /\ rret[r].data = <<>>

\* --------------------------------------------------------------- splitPath
\* Longest path handed to splitPath as it is, and longest component of a path
\* built by getPath, in characters.
MaxPath == 4
MaxPart == 2

\* The characters of the paths: the separator, the dot and a letter
PathChars == {Slash, ".", "a"}

\* The strings of at most n characters
Strings(n) == UNION {[1..k -> PathChars] : k \in 0..n}

\* path.Base: the last element of the path, trailing slashes removed; "." for
\* the empty path, "/" for a path of slashes only
StripSlashes(p) ==
  SubSeq(p, 1, IF \E i \in 1..Len(p) : p[i] # Slash
                 THEN CHOOSE i \in 1..Len(p) :
                        p[i] # Slash /\ \A j \in (i + 1)..Len(p) : p[j] = Slash
                 ELSE 0)

LastElement(s) == SubSeq(s, LastSlash(s) + 1, Len(s))

Base(p) ==
  IF p = <<>> THEN Dot
  ELSE IF LastElement(StripSlashes(p)) = <<>> THEN <<Slash>>
  ELSE LastElement(StripSlashes(p))

\* splitPath's switch: the error is set when a component is the empty string
splitPathReturn(programPath, programName, confName) ==
  [programPath |-> programPath, programName |-> programName,
   confName |-> confName,
   err |-> (programPath = Empty \/ programName = Empty \/ confName = Empty)]

\* splitPath taking the file's directory for programPath (a mutant of splitPath)
splitPathOneDir(fullPath) ==
  splitPathReturn(Dir(fullPath), Base(Dir(fullPath)), Base(fullPath))

\* splitPath
splitPath(fullPath) ==
  splitPathReturn(Dir(Dir(fullPath)), Base(Dir(fullPath)), Base(fullPath))

SplitInit ==
  /\ environ = [XDG_CONFIG_HOME |-> Empty, HOME |-> Empty]
  /\ disk = [files |-> <<>>, dirs |-> BaseDirs]
  /\ ret = NoCall
  /\ calls = 0
  /\ WatchIdle

\* splitPath(fullPath) on a path as the caller has it
CallSplitPath(fullPath) ==
  /\ ~split.called
  /\ split' = [called |-> TRUE, fullPath |-> fullPath, built |-> FALSE,
               out |-> splitPath(fullPath)]
  /\ UNCHANGED <<environ, disk, ret, calls, listenRet, watched, events, werrs,
                 pc, pending, lock, recv, consuming, wpc, warg, written, writes,
                 ext, taken, reads, spaced, rpc, rret, wret, wold, quiet, window>>

\* splitPath(c.getPath()) for a Config of the three components
CallSplitGetPath(programPath, programName, confName) ==
  /\ ~split.called
  /\ LET c == MkConfig(programPath, programName, confName, FALSE)
         fullPath == Join(<<c.programPath, c.programName, c.confName>>)
     IN  split' = [called |-> TRUE, fullPath |-> fullPath, built |-> TRUE,
                   conf |-> c, out |-> splitPath(fullPath)]
  /\ UNCHANGED <<environ, disk, ret, calls, listenRet, watched, events, werrs,
                 pc, pending, lock, recv, consuming, wpc, warg, written, writes,
                 ext, taken, reads, spaced, rpc, rret, wret, wold, quiet, window>>

\* One call in a behaviour: its argument is any of the paths, or the path of
\* any three components.
SplitNext ==
  \/ ~split.called /\ \E fullPath \in Strings(MaxPath) : CallSplitPath(fullPath)
  \/ ~split.called /\ \E r, p, f \in Strings(MaxPart) : CallSplitGetPath(r, p, f)

SplitSpec == SplitInit /\ [][SplitNext]_vars

\* ------------------------------------------------- claims about splitPath
NonEmptyElement(e) == e # <<>>

\* The segments of a path: its non-empty elements between slashes
Segments(p) == Len(SelectSeq(SplitAcc(p, <<>>, <<>>), NonEmptyElement))

\* C18: splitPath of a path of fewer than three segments returns an error.
C18_FewSegmentsFail ==
  (split.called /\ ~split.built /\ Segments(split.fullPath) < 3) => split.out.err

\* What splitPath returned is the three components of the Config, no error
RoundTrip ==
  /\ ~split.out.err
  /\ split.out.programPath = split.conf.programPath
  /\ split.out.programName = split.conf.programName
  /\ split.out.confName = split.conf.confName

\* A name of one path element: not empty, no separator, not "." nor ".."
IsName(n) ==
  n # <<>> /\ (\A i \in 1..Len(n) : n[i] # Slash) /\ n # Dot /\ n # DotDot

\* C19 as stated: for components that are not empty, splitPath of getPath
\* returns the components.
C19_RoundTripNonEmpty ==
  (/\ split.called /\ split.built
   /\ split.conf.programPath # Empty
   /\ split.conf.programName # Empty
   /\ split.conf.confName # Empty)
    => RoundTrip

\* C19, amended: for a programPath that is a cleaned path and a programName and
\* confName that are names of one element, splitPath of getPath returns the
\* components and no error.
C19_RoundTripCleanParts ==
  (/\ split.called /\ split.built
   /\ Clean(split.conf.programPath) = split.conf.programPath
   /\ IsName(split.conf.programName)
   /\ IsName(split.conf.confName))
    => RoundTrip

\* C19's case: the path /a/a/.a is split into /a, a and .a.
C19_Witness ==
  /\ split.called /\ split.built
  /\ split.conf.programPath = <<Slash, "a">>
  /\ split.conf.programName = <<"a">>
  /\ split.conf.confName = <<".", "a">>
  /\ split.fullPath = <<Slash, "a", Slash, "a", Slash, ".", "a">>
  /\ RoundTrip

\* ------------------------------------------------ Get called a second time
\* C20: when Get returned the user's configuration, found or just copied, a
\* second Get with the same names in the file system the first one left,
\* whatever fails in it, returns without error a Config of the same path and
\* the same isTemporary.
C20_GetTwiceSameHandle ==
  (ret.called /\ ret.via \in {"copied", "found"})
    => \A uf, tf \in Faults :
         LET again == Get(disk, environ, ret.programName, ret.confName, uf, tf)
         IN  /\ ~again.err
             /\ getPath(again.conf) = getPath(ret.conf)
             /\ again.conf.isTemporary = ret.conf.isTemporary

\* ------------------------------------------- what Get leaves on the disk
\* Get tried to copy the system configuration to the user root and the copy
\* failed: a user root is set, nothing was at the user's path, a file was at
\* the system's, and Get did not return the copy.
UserCopyFailed ==
  /\ ret.called
  /\ UserRootSet(UserRoot(environ))
  /\ ~Stat(ret.before, UserPath)
  /\ IsFile(ret.before, SysPath)
  /\ ret.via # "copied"

\* C21: when the copy of the system configuration to the user root failed, no
\* file is at <userRoot>/<program>/<file> afterwards, and so a Get that follows
\* does not return the user's path.
C21_FailedCopyLeavesNothing ==
  UserCopyFailed
    => (/\ ~IsFile(disk, UserPath)
        /\ \A uf, tf \in Faults :
             Get(disk, environ, ret.programName, ret.confName, uf, tf).via # "found")

\* C22: with a user root set and something at <userRoot>/<program>/<file>, Get
\* returns the Config of that path without error and the file system is what
\* it was before the call: no directory made, no file created, truncated or
\* written, under the user root, /etc or /tmp.
C22_FoundLeavesDiskAlone ==
  (ret.called /\ UserRootSet(UserRoot(environ)) /\ Stat(ret.before, UserPath))
    => (/\ ~ret.err
        /\ ret.via = "found"
        /\ getPath(ret.conf) = UserPath
        /\ disk = ret.before)

\* C22's case: the user's file and the system's both exist, Get returned the
\* user's, and no copy was made in /tmp.
C22_Witness ==
  /\ ret.called
  /\ ret.via = "found"
  /\ IsFile(ret.before, UserPath)
  /\ IsFile(ret.before, SysPath)
  /\ ret.before.files[UserPath] # ret.before.files[SysPath]
  /\ ~Stat(disk, JoinTable[TmpRoot][ret.programName][ret.confName])
  /\ disk = ret.before

====
